---- MODULE Spec2Model ----
(***************************************************************************)
(* Model of the argparse port: the matching engine                         *)
(* (ArgumentParser.parse_args / parse_known_args / _parse_known_args and   *)
(* the helpers they call, src/lib/ArgumentParser.js) and the declaration   *)
(* methods (_get_positional_kwargs, _check_conflict, _add_action of the    *)
(* container and of a mutually exclusive group, the _StoreAction           *)
(* constructor), translated statement by statement with the semantics      *)
(* JavaScript gives each                                                   *)
(* statement (truthiness of arrays, Array.prototype.join's default         *)
(* separator, Math.max of an object, the `in` operator on a primitive,     *)
(* bracket access on a Map, ...).                                          *)
(*                                                                         *)
(* A token is a sequence of one-character strings, so that startsWith,     *)
(* length and slicing are computed and not assumed.                        *)
(***************************************************************************)
EXTENDS Integers, Sequences, FiniteSets, TLC

(***************************************************************************)
(* Bounds                                                                  *)
(***************************************************************************)
\* longest argument list handed to a parse
MaxArgs == 3
\* the largest number of sections a help formatter is given
MaxSections == 2

(***************************************************************************)
(* JavaScript values.  v is always a sequence of tokens: empty for the     *)
(* primitives without content, one token for a string, the elements for    *)
(* an array.                                                               *)
(***************************************************************************)
Null == [t |-> "null", v |-> <<>>]
Undefined == [t |-> "undefined", v |-> <<>>]
False == [t |-> "false", v |-> <<>>]
True == [t |-> "true", v |-> <<>>]
Str(tok) == [t |-> "string", v |-> <<tok>>]
Arr(toks) == [t |-> "array", v |-> toks]

\* ToBoolean: null, undefined, false and the empty string are falsy; every
\* object, the empty array included, is truthy.
Truthy(val) ==
  CASE val.t \in {"null", "undefined", "false"} -> FALSE
    [] val.t = "string" -> val.v[1] # <<>>
    [] OTHER -> TRUE

\* Type(val) is Object
IsObject(val) == val.t = "array"

\* the sentinel of the constants module
SUPPRESS == Str(<<"==SUPPRESS==">>)
SUPPRESS_dest == "==SUPPRESS=="

\* nargs values of the constants module
OPTIONAL == "?"
ZERO_OR_MORE == "*"
ONE_OR_MORE == "+"
PARSER == "A..."
REMAINDER == "..."
NargsNone == "null"
NargsZero == "0"

(***************************************************************************)
(* Tokens                                                                  *)
(***************************************************************************)
tX == <<"x">>
tY == <<"y">>
tZ == <<"z">>
tDash == <<"-">>
tDashDash == <<"-", "-">>
tA == <<"-", "a">>
tB == <<"-", "b">>
tC == <<"-", "c">>
tABC == <<"-", "a", "b", "c">>
tMinusX == <<"-", "x">>
tFo == <<"-", "-", "f", "o">>
tFoo == <<"-", "-", "f", "o", "o">>
tFoobar == <<"-", "-", "f", "o", "o", "b", "a", "r">>
tFooEqX == <<"-", "-", "f", "o", "o", "=", "x">>
tBogus == <<"-", "-", "b", "o", "g", "u", "s">>
tEmpty == <<>>
tNode == <<"n", "o", "d", "e">>
tMain == <<"m", "a", "i", "n">>
tSeed == <<"s">>

Tokens ==
  {tX, tY, tZ, tDash, tDashDash, tA, tB, tABC, tMinusX, tFo, tFoo, tFooEqX, tBogus, tEmpty}

RECURSIVE SeqsUpTo(_, _)
SeqsUpTo(S, n) ==
  IF n = 0 THEN {<<>>}
  ELSE LET shorter == SeqsUpTo(S, n - 1)
       IN shorter \cup {Append(s, e) : s \in {q \in shorter : Len(q) = n - 1}, e \in S}

ArgLists == SeqsUpTo(Tokens, MaxArgs)

\* String.prototype.startsWith
StartsWith(s, p) == Len(s) >= Len(p) /\ SubSeq(s, 1, Len(p)) = p

(***************************************************************************)
(* Actions.  The Action base class and the flag actions are not among the  *)
(* sources; an action is the record of the fields the engine reads.        *)
(***************************************************************************)
Action(option_strings, dest, nargs, const, default, required) ==
  [option_strings |-> option_strings, dest |-> dest, nargs |-> nargs,
   const |-> const, default |-> default, required |-> required]

\* add_argument(dest, {nargs, defaultValue}): a positional, as
\* _get_positional_kwargs and _StoreAction build it
Positional(dest, nargs, default) ==
  Action(<<>>, dest, nargs, Null, default,
         ~(nargs \in {OPTIONAL, ZERO_OR_MORE}) \/ (nargs = ZERO_OR_MORE /\ ~Truthy(default)))

\* add_argument(option_string, {defaultValue}): a single-value store option
StoreOption(option_string, dest, default) ==
  Action(<<option_string>>, dest, NargsNone, Null, default, FALSE)

\* add_argument(option_string, {required: true}): a required single-value
\* store option
RequiredOption(option_string, dest) ==
  Action(<<option_string>>, dest, NargsNone, Null, Null, TRUE)

\* add_argument(option_string, {action: 'store_true'}): a zero-argument flag
Flag(option_string, dest) ==
  Action(<<option_string>>, dest, NargsZero, True, False, FALSE)

\* a mutually exclusive group: its required flag and its members, as
\* indices into the container's action list
Group(required, members) == [required |-> required, group_actions |-> members]

\* The containers the parses run against.  The parse methods read the
\* container's declaration-time data (_actions, _option_string_actions,
\* _mutually_exclusive_groups); each parser below is that data for one
\* set of declarations, every action laid out as the registration code
\* lays it out (option_strings an array, empty for a positional).
NoGroups == <<>>
Parsers ==
  { [actions |-> <<>>, groups |-> NoGroups],
    [actions |-> <<Positional("p1", NargsNone, Null)>>, groups |-> NoGroups],
    [actions |-> <<Positional("p1", NargsNone, Null), Positional("p2", NargsNone, Null)>>,
     groups |-> NoGroups],
    [actions |-> <<Positional("p1", NargsNone, SUPPRESS)>>, groups |-> NoGroups],
    [actions |-> <<Flag(tA, "a"), Flag(tB, "b"), Flag(tC, "c")>>, groups |-> NoGroups],
    [actions |-> <<StoreOption(tFoo, "foo", Null)>>, groups |-> NoGroups],
    [actions |-> <<StoreOption(tFoo, "foo", Null), StoreOption(tFoobar, "foobar", Null)>>,
     groups |-> NoGroups],
    [actions |-> <<Positional("first", ZERO_OR_MORE, Null), Positional("second", ONE_OR_MORE, Null)>>,
     groups |-> NoGroups],
    [actions |-> <<Flag(tA, "a"), Flag(tB, "b")>>, groups |-> <<Group(TRUE, <<1, 2>>)>>],
    [actions |-> <<RequiredOption(tFoo, "foo")>>, groups |-> NoGroups],
    [actions |-> <<StoreOption(tFoo, "foo", Str(tX))>>, groups |-> NoGroups],
    [actions |-> <<Positional("rest", REMAINDER, Null)>>, groups |-> NoGroups],
    [actions |-> <<Positional("rest", REMAINDER, Arr(<<>>))>>, groups |-> NoGroups] }

\* process.argv of the running program: the interpreter, the script, and
\* the words typed after it
ProcessArgvs == {<<tNode, tMain>>, <<tNode, tMain, tX>>}

VARIABLES
  _actions,                    \* this._actions, in declaration order
  _option_string_actions,      \* this._option_string_actions, a Map
  _mutually_exclusive_groups,  \* this._mutually_exclusive_groups
  conflict_handler,            \* this.conflict_handler
  process_argv,                \* process.argv
  exited,                      \* the process has ended (process.exit)
  op,                          \* the last method called on the parser
  input,                       \* the args a parse was called with
  given,                       \* the argument of a declaration method
  built,                       \* what a declaration method returned
  seeded,                      \* whether the caller passed a pre-seeded Namespace
  namespace,                   \* the Namespace object of the last parse
  action_conflicts,            \* locals of _parse_known_args at its end
  arg_strings_pattern,
  positionals,                 \* the positionals not consumed yet (lines 396, 416)
  seen_actions,
  seen_non_default_actions,
  converted,                   \* the actions whose default went through _get_value (line 488)
  extras,
  formatter,                   \* a HelpFormatter: its indentation, its sections
  outcome                      \* how the call ended

vars == <<_actions, _option_string_actions, _mutually_exclusive_groups, conflict_handler,
          process_argv, exited, op, input, given, built, seeded, namespace, action_conflicts, arg_strings_pattern,
          positionals, seen_actions, seen_non_default_actions, converted, extras, formatter, outcome>>

container == <<_actions, _option_string_actions, _mutually_exclusive_groups, conflict_handler,
               process_argv>>

(***************************************************************************)
(* How a call ends                                                         *)
(***************************************************************************)
\* the method returned
Returned == [kind |-> "return", name |-> "", msg |-> "", line |-> 0]
\* a built-in exception left the method
Throw(name, line) == [kind |-> "throw", name |-> name, msg |-> "", line |-> line]
\* an ArgumentError left the method
ArgumentError(msg, line) == [kind |-> "throw", name |-> "ArgumentError", msg |-> msg, line |-> line]
\* this.error(message): prints the usage and the message and ends the
\* process with status 2; it does not return
error(message, line) == [kind |-> "exit", name |-> "error", msg |-> message, line |-> line]
NotCalled == [kind |-> "none", name |-> "", msg |-> "", line |-> 0]
\* a ValueError left the method
ValueError(msg, line) == [kind |-> "throw", name |-> "ValueError", msg |-> msg, line |-> line]
\* process.exit() called outside error()
ProcessExit(line) == [kind |-> "exit", name |-> "process.exit", msg |-> "", line |-> line]

(***************************************************************************)
(* JavaScript numbers, as far as the cursor arithmetic needs them          *)
(***************************************************************************)
Num(n) == [nan |-> FALSE, n |-> n]
NaN == [nan |-> TRUE, n |-> 0]
\* a <= b: false as soon as one side is NaN
LessEq(a, b) == ~a.nan /\ ~b.nan /\ a.n <= b.n
\* Math.max(o) for a plain object o: ToNumber(o) is NaN
Math_max(object) == NaN

(***************************************************************************)
(* The Namespace: a mapping from dest to value                             *)
(***************************************************************************)
EmptyNamespace == [d \in {} |-> Null]
\* namespace[dest]
Get(ns, dest) == IF dest \in DOMAIN ns THEN ns[dest] ELSE Undefined
Put(ns, dest, val) == [d \in DOMAIN ns \cup {dest} |-> IF d = dest THEN val ELSE ns[d]]
\* a Namespace the caller filled before the parse: every dest holds "s"
SeededNamespace(actions) ==
  [d \in {actions[i].dest : i \in DOMAIN actions} |-> Str(tSeed)]

\* Object.defineProperty(namespace, dest, descriptor): the third argument
\* is read as a property descriptor.  A descriptor that is not an object is
\* a TypeError; an array has none of value/get/set/writable, so a new
\* property gets the value undefined and an existing one keeps its value.
DefineProperty(ns, dest, descriptor) ==
  IF ~IsObject(descriptor) THEN [ok |-> FALSE, ns |-> ns]
  ELSE [ok |-> TRUE, ns |-> IF dest \in DOMAIN ns THEN ns ELSE Put(ns, dest, Undefined)]

\* parse_known_args, lines 215-220: add any action defaults that aren't
\* present.  Stops at the first action whose default is not an object.
RECURSIVE AddActionDefaults(_, _, _)
AddActionDefaults(actions, i, ns) ==
  IF i > Len(actions) THEN [ok |-> TRUE, ns |-> ns]
  ELSE LET action == actions[i]
       IN IF action.dest # SUPPRESS_dest /\ action.default # SUPPRESS
             /\ ~Truthy(Get(ns, action.dest))
          THEN LET r == DefineProperty(ns, action.dest, action.default)
               IN IF r.ok THEN AddActionDefaults(actions, i + 1, r.ns) ELSE r
          ELSE AddActionDefaults(actions, i + 1, ns)

(***************************************************************************)
(* Token classification                                                    *)
(***************************************************************************)
prefix_chars == <<"-">>

\* this._option_string_actions[name]: the index is a Map filled with
\* set(); bracket access reads a property of the Map object, not an
\* entry, and no property of a Map is named by a string that starts with
\* the prefix character.
MapProperty(map, name) == Undefined

\* _parse_optional: null (a positional), a tuple, or the TypeError that
\* `'=' in arg_string` raises when its right operand is a string.  Every
\* token that gets to line 606 raises there, so lines 607-642 (the split
\* at '=', _get_option_tuples, the negative-number and the space tests)
\* run for no token.
_parse_optional(arg_string, option_string_actions) ==
  IF arg_string = <<>> \/ ~StartsWith(arg_string, prefix_chars)
    THEN [kind |-> "null", line |-> 591]
  ELSE IF Truthy(MapProperty(option_string_actions, arg_string))
    THEN [kind |-> "tuple", line |-> 597]
  ELSE IF Len(arg_string) = 1
    THEN [kind |-> "null", line |-> 602]
  ELSE [kind |-> "TypeError", line |-> 606]

RECURSIVE Repeat(_, _)
Repeat(x, n) == IF n = 0 THEN <<>> ELSE <<x>> \o Repeat(x, n - 1)

\* _parse_known_args, lines 260-282: the pattern parts and the indices of
\* the option tuples (indices count from 1 here, from 0 in the code).
\* A '--' pushes '-' and then one 'A' per element of arg_strings, and the
\* loop goes on to classify the tokens after it.
RECURSIVE ClassifyFrom(_, _, _, _, _)
ClassifyFrom(arg_strings, index, parts, indices, option_string_actions) ==
  IF index > Len(arg_strings)
    THEN [ok |-> TRUE, parts |-> parts, indices |-> indices, line |-> 282]
  ELSE IF arg_strings[index] = tDashDash
    THEN ClassifyFrom(arg_strings, index + 1,
                      parts \o <<"-">> \o Repeat("A", Len(arg_strings)),
                      indices, option_string_actions)
  ELSE LET option_tuple == _parse_optional(arg_strings[index], option_string_actions)
       IN CASE option_tuple.kind = "TypeError" ->
                 [ok |-> FALSE, parts |-> parts, indices |-> indices, line |-> option_tuple.line]
            [] option_tuple.kind = "null" ->
                 ClassifyFrom(arg_strings, index + 1, parts \o <<"A">>, indices,
                              option_string_actions)
            [] OTHER ->
                 ClassifyFrom(arg_strings, index + 1, parts \o <<"O">>,
                              indices \cup {index}, option_string_actions)

\* Array.prototype.join() without an argument: the separator is ","
RECURSIVE Join(_)
Join(parts) ==
  IF parts = <<>> THEN <<>>
  ELSE IF Len(parts) = 1 THEN parts
  ELSE <<parts[1], ",">> \o Join(Tail(parts))

\* String.prototype.slice(start), start counted from 0
Slice(s, start) == SubSeq(s, start + 1, Len(s))

(***************************************************************************)
(* Positional matching                                                     *)
(***************************************************************************)
\* _get_positional_actions: the actions whose option_strings is falsy, as
\* indices into _actions.  option_strings is an array, and an array is
\* truthy even when it is empty.
RECURSIVE PositionalsFrom(_, _)
PositionalsFrom(actions, i) ==
  IF i > Len(actions) THEN <<>>
  ELSE (IF ~Truthy(Arr(actions[i].option_strings)) THEN <<i>> ELSE <<>>)
       \o PositionalsFrom(actions, i + 1)

_get_positional_actions(actions) == PositionalsFrom(actions, 1)

\* new RegExp('').exec(string): the empty pattern matches at index 0 and
\* has no groups
EmptyRegExpExec(string) == <<"">>

\* _match_arguments_partial: `for (let i = actions.length; i === 0; i--)`
\* runs its body only when the list is empty, once, with i = 0; the body
\* then matches the empty pattern and calls result.concat(...), which
\* returns a new array and leaves result as it was.
_match_arguments_partial(actions, pattern) ==
  LET result == <<>>
      i == Len(actions)
  IN IF i = 0
       THEN LET match == EmptyRegExpExec(pattern)
                concatenated == result \o [k \in DOMAIN match |-> Len(match[k])]
            IN result
       ELSE result

\* consume_positionals(start_index) with no action seen so far.  For each
\* outstanding positional, whatever arg_counts holds, the callback adds
\* arg_counts[index] to the cursor (undefined for an empty arg_counts:
\* NaN, and slice(NaN, NaN) is empty) and calls take_action(action, []):
\* take_action marks the action seen and calls _get_values, whose first
\* statement reads PARSER and REMAINDER, names the module never binds.
consume_positionals(start_index, outstanding, pattern) ==
  LET selected_pattern == Slice(pattern, start_index)
      arg_counts == _match_arguments_partial(outstanding, selected_pattern)
  IN IF outstanding = <<>>
       THEN [outcome |-> Returned, start_index |-> Num(start_index),
             positionals |-> SubSeq(outstanding, Len(arg_counts) + 1, Len(outstanding)),
             seen_actions |-> {}]
       ELSE [outcome |-> Throw("ReferenceError", 752), start_index |-> NaN,
             positionals |-> outstanding, seen_actions |-> {outstanding[1]}]

(***************************************************************************)
(* _parse_known_args                                                       *)
(***************************************************************************)
\* lines 246-255: every member of a mutually exclusive group gets an empty
\* list; nothing is ever added to it
ActionConflicts(groups) ==
  [a \in UNION {{g.group_actions[k] : k \in DOMAIN g.group_actions} :
                g \in {groups[j] : j \in DOMAIN groups}} |-> <<>>]

\* an element of extras: a token, or an array of tokens pushed as one element
ExtraToken(tok) == [nested |-> FALSE, v |-> <<tok>>]
ExtraArray(toks) == [nested |-> TRUE, v |-> toks]

\* lines 474-491, reached with the Set seen_actions: seen_actions[action]
\* reads a property of the Set, which is undefined, so every action is
\* taken as not seen.  _get_action_name is not bound in the module; a string
\* default is handed to Object.defineProperty as a descriptor.
\* the actions of that pass whose default reaches _get_value before the
\* pass ends: the argument of Object.defineProperty is evaluated first
RECURSIVE ConvertedDefaults(_, _, _)
ConvertedDefaults(actions, i, ns) ==
  IF i > Len(actions) THEN <<>>
  ELSE LET action == actions[i]
       IN IF action.required THEN <<>>
          ELSE IF action.default # Null /\ action.default.t = "string"
                  /\ action.default = Get(ns, action.dest)
            THEN <<i>>
          ELSE ConvertedDefaults(actions, i + 1, ns)

RECURSIVE RequiredActions(_, _, _)
RequiredActions(actions, i, ns) ==
  IF i > Len(actions) THEN Returned
  ELSE LET action == actions[i]
       IN IF action.required THEN Throw("ReferenceError", 478)
          ELSE IF action.default # Null /\ action.default.t = "string"
                  /\ action.default = Get(ns, action.dest)
            THEN Throw("TypeError", 488)
          ELSE RequiredActions(actions, i + 1, ns)

\* lines 493-506: a required group fails as soon as one member is not in
\* seen_non_default_actions; building the message calls _get_action_name
RECURSIVE RequiredGroups(_, _, _)
RequiredGroups(groups, j, seen_non_default) ==
  IF j > Len(groups) THEN Returned
  ELSE IF groups[j].required
          /\ \E k \in DOMAIN groups[j].group_actions :
               groups[j].group_actions[k] \notin seen_non_default
    THEN Throw("ReferenceError", 501)
  ELSE RequiredGroups(groups, j + 1, seen_non_default)

Run(ns, ac, pattern, pos, seen, seen_nd, conv, ex, out) ==
  [namespace |-> ns, action_conflicts |-> ac, arg_strings_pattern |-> pattern,
   positionals |-> pos, seen_actions |-> seen, seen_non_default_actions |-> seen_nd,
   converted |-> conv, extras |-> ex,
   outcome |-> out]

\* The loop of lines 431-460 is guarded by `start_index <= NaN`; were it
\* entered, its first statement calls filter on a plain object.  So
\* consume_optional (lines 318-392) runs in no parse, and take_action only
\* from consume_positionals.
_parse_known_args(arg_strings, ns, actions, option_string_actions, groups) ==
  LET conflicts == ActionConflicts(groups)
      classes == ClassifyFrom(arg_strings, 1, <<>>, {}, option_string_actions)
      pattern == Join(classes.parts)
      declared == _get_positional_actions(actions)
      \* `if (option_string_indices)`: an object is truthy
      max_option_string_index == Math_max(classes.indices)
      start_index == 0
      consumed == consume_positionals(start_index, declared, pattern)
      \* arg_strings.slice(stop_index); slice(NaN) is slice(0)
      stop_index == IF consumed.start_index.nan THEN 0 ELSE consumed.start_index.n
      extras_end == <<ExtraArray(SubSeq(arg_strings, stop_index + 1, Len(arg_strings)))>>
  IN IF ~classes.ok
       THEN Run(ns, conflicts, <<>>, <<>>, {}, {}, <<>>, <<>>, Throw("TypeError", classes.line))
     ELSE IF LessEq(Num(start_index), max_option_string_index)
       \* line 433: option_string_indices.filter is not a function
       THEN Run(ns, conflicts, pattern, declared, {}, {}, <<>>, <<>>, Throw("TypeError", 433))
     ELSE IF consumed.outcome.kind # "return"
       THEN Run(ns, conflicts, pattern, consumed.positionals, consumed.seen_actions, {}, <<>>, <<>>, consumed.outcome)
     \* line 470, `if (positionals)`: an array is truthy
     ELSE IF Truthy(Arr(consumed.positionals))
       THEN Run(ns, conflicts, pattern, consumed.positionals, consumed.seen_actions, {}, <<>>, extras_end,
                error("too few arguments", 471))
     ELSE IF RequiredActions(actions, 1, ns).kind # "return"
       THEN Run(ns, conflicts, pattern, consumed.positionals, consumed.seen_actions, {},
                ConvertedDefaults(actions, 1, ns), extras_end, RequiredActions(actions, 1, ns))
     ELSE Run(ns, conflicts, pattern, consumed.positionals, consumed.seen_actions, {},
              ConvertedDefaults(actions, 1, ns), extras_end,
              RequiredGroups(groups, 1, {}))

(***************************************************************************)
(* parse_known_args and parse_args                                         *)
(***************************************************************************)
\* args: what the caller passed; seed: whether it passed a filled Namespace
parse_known_args(args, seed, actions, option_string_actions, groups, argv) ==
  LET \* lines 205-208: an empty list is replaced by process.argv.slice(1)
      arg_strings == IF args = <<>> THEN Tail(argv) ELSE args
      ns0 == IF seed THEN SeededNamespace(actions) ELSE EmptyNamespace
      defaults == AddActionDefaults(actions, 1, ns0)
  IN IF ~defaults.ok
       THEN Run(defaults.ns, <<>>, <<>>, <<>>, {}, {}, <<>>, <<>>, Throw("TypeError", 218))
       \* lines 223-228: _defaults is a Map no code adds an entry to
       ELSE _parse_known_args(arg_strings, defaults.ns, actions, option_string_actions, groups)

\* parse_args: `if (argv)` tests an array, which is truthy
parse_args(args, seed, actions, option_string_actions, groups, argv) ==
  LET known == parse_known_args(args, seed, actions, option_string_actions, groups, argv)
  IN IF known.outcome.kind # "return" THEN known
     ELSE IF Truthy(Arr(known.extras))
       THEN [known EXCEPT !.outcome = error("unrecognized arguments", 193)]
     ELSE known

(***************************************************************************)
(* The state machine                                                       *)
(***************************************************************************)
\* the index _add_action builds: every option string of every action
OptionStringActions(actions) ==
  [s \in UNION {{actions[i].option_strings[k] : k \in DOMAIN actions[i].option_strings} :
                i \in DOMAIN actions}
     |-> CHOOSE i \in DOMAIN actions :
           \E k \in DOMAIN actions[i].option_strings : actions[i].option_strings[k] = s]

Init ==
  /\ \E p \in Parsers :
       /\ _actions = p.actions
       /\ _option_string_actions = OptionStringActions(p.actions)
       /\ _mutually_exclusive_groups = p.groups
  /\ conflict_handler \in {"error", "resolve"}
  /\ process_argv \in ProcessArgvs
  /\ given = Undefined
  /\ built = Undefined
  /\ exited = FALSE
  /\ op = "none"
  /\ input = <<>>
  /\ seeded = FALSE
  /\ namespace = EmptyNamespace
  /\ action_conflicts = <<>>
  /\ arg_strings_pattern = <<>>
  /\ positionals = <<>>
  /\ seen_actions = {}
  /\ seen_non_default_actions = {}
  /\ converted = <<>>
  /\ formatter = [_current_indent |-> 0, _level |-> 0, _indent_increment |-> 2,
                  depth |-> 0, sections |-> 0, items |-> <<>>]
  /\ extras = <<>>
  /\ outcome = NotCalled

\* used in place of Finish: a parse that empties the parser's declarations
FinishAndForget(name, args, seed, run) ==
  /\ op' = name
  /\ input' = args
  /\ seeded' = seed
  /\ namespace' = run.namespace
  /\ action_conflicts' = run.action_conflicts
  /\ arg_strings_pattern' = run.arg_strings_pattern
  /\ positionals' = run.positionals
  /\ seen_actions' = run.seen_actions
  /\ seen_non_default_actions' = run.seen_non_default_actions
  /\ converted' = run.converted
  /\ extras' = run.extras
  /\ outcome' = run.outcome
  /\ exited' = (run.outcome.kind = "exit")
  /\ _actions' = <<>>
  /\ _option_string_actions' = OptionStringActions(<<>>)
  /\ _mutually_exclusive_groups' = <<>>
  /\ UNCHANGED <<conflict_handler, process_argv, given, built, formatter>>

Finish(name, args, seed, run) ==
  /\ op' = name
  /\ input' = args
  /\ seeded' = seed
  /\ namespace' = run.namespace
  /\ action_conflicts' = run.action_conflicts
  /\ arg_strings_pattern' = run.arg_strings_pattern
  /\ positionals' = run.positionals
  /\ seen_actions' = run.seen_actions
  /\ seen_non_default_actions' = run.seen_non_default_actions
  /\ converted' = run.converted
  /\ extras' = run.extras
  /\ outcome' = run.outcome
  /\ exited' = (run.outcome.kind = "exit")
  /\ UNCHANGED <<container, given, built, formatter>>

\* A call made after an earlier call that threw starts from the same
\* container and reaches the states of a first call, so calls are taken
\* from the state in which none has been made.
ParseKnownArgs ==
  /\ ~exited /\ op = "none"
  /\ \E args \in ArgLists, seed \in BOOLEAN :
       Finish("parse_known_args", args, seed,
              parse_known_args(args, seed, _actions, _option_string_actions,
                               _mutually_exclusive_groups, process_argv))

ParseArgs ==
  /\ ~exited /\ op = "none"
  /\ \E args \in ArgLists, seed \in BOOLEAN :
       Finish("parse_args", args, seed,
              parse_args(args, seed, _actions, _option_string_actions,
                         _mutually_exclusive_groups, process_argv))

Next == ParseKnownArgs \/ ParseArgs

Spec == Init /\ [][Next]_vars

(***************************************************************************)
(* Declaration: the methods that build an action and register it           *)
(***************************************************************************)
NargsOne == "1"
NargsValues == {NargsNone, NargsZero, NargsOne, OPTIONAL, ZERO_OR_MORE, ONE_OR_MORE, REMAINDER}
\* values a caller passes for a default or a const; undefined when the key
\* is left out
Defaults == {Undefined, Null, False, Str(tEmpty), Str(tX), Arr(<<>>), Arr(<<tX>>)}
RequiredValues == {Undefined, False, True}
Dests == {"p1", "p2"}

\* the kwargs object add_argument hands to _get_positional_kwargs
Kwargs(nargs, default, required) ==
  [nargs |-> nargs, default |-> default, required |-> required]

\* the test of lines 327-330 with the second disjunct turned round
RequiredUnlessNoDefault(kwargs) ==
  ~(kwargs.nargs \in {OPTIONAL, ZERO_OR_MORE})
  \/ (kwargs.nargs = ZERO_OR_MORE /\ Truthy(kwargs.default))

\* lines 327-330: `![OPTIONAL, ZERO_OR_MORE].includes(kwargs.nargs) ||
\* kwargs.nargs === ZERO_OR_MORE && !kwargs.default`
MarkRequired(kwargs) ==
  ~(kwargs.nargs \in {OPTIONAL, ZERO_OR_MORE})
  \/ (kwargs.nargs = ZERO_OR_MORE /\ ~Truthy(kwargs.default))

\* _get_positional_kwargs(dest, kwargs): the kwargs with required set when
\* the test holds and left as passed otherwise, with the dest and with an
\* empty option_strings array
_get_positional_kwargs(dest, kwargs) ==
  IF Truthy(kwargs.required)
    THEN [outcome |-> Throw("TypeError", 323), kwargs |-> Undefined]
    ELSE [outcome |-> Returned,
          kwargs |-> [nargs |-> kwargs.nargs, default |-> kwargs.default,
                      required |-> IF MarkRequired(kwargs) THEN True ELSE kwargs.required,
                      dest |-> dest, option_strings |-> Arr(<<>>)]]

\* a declaration method ended: what it was given, how it ended, what it
\* returned and the container it leaves
Declared(name, arg, out, val, acts, index, groups) ==
  /\ op' = name
  /\ given' = arg
  /\ outcome' = out
  /\ built' = val
  /\ _actions' = acts
  /\ _option_string_actions' = index
  /\ _mutually_exclusive_groups' = groups
  /\ exited' = (out.kind = "exit")
  /\ UNCHANGED <<conflict_handler, process_argv, input, seeded, namespace, action_conflicts,
                 arg_strings_pattern, positionals, seen_actions, seen_non_default_actions,
                 converted, extras, formatter>>

\* _get_positional_kwargs and the action constructors read nothing of the
\* container and leave it alone: they are called in the state in which no
\* method has been called.
GetPositionalKwargs ==
  /\ ~exited /\ op = "none"
  /\ \E dest \in Dests, nargs \in NargsValues, default \in Defaults, required \in RequiredValues :
       LET kwargs == Kwargs(nargs, default, required)
           r == _get_positional_kwargs(dest, kwargs)
       IN Declared("_get_positional_kwargs", [dest |-> dest, kwargs |-> kwargs],
                   r.outcome, r.kwargs, _actions, _option_string_actions,
                   _mutually_exclusive_groups)

\* a destructured parameter: the default stands in for undefined only
OrDefault(val, default) == IF val = Undefined THEN default ELSE val

\* the kwargs object handed to an action class
ActionKwargs(option_strings, dest, nargs, constant, defaultValue, required) ==
  [option_strings |-> option_strings, dest |-> dest, nargs |-> nargs,
   constant |-> constant, defaultValue |-> defaultValue, required |-> required]

\* no test of the const at all
ConstNeverRefused(nargs, constant) == FALSE

\* _StoreAction.js line 29: `constant !== null && nargs !== OPTIONAL`
ConstWithoutOptional(nargs, constant) == constant # Null /\ nargs # OPTIONAL

\* new _StoreAction(kwargs): the two tests, then the constructor of the
\* Action base class, which keeps the fields
_StoreAction(kwargs) ==
  LET nargs == kwargs.nargs
      constant == OrDefault(kwargs.constant, Null)
      defaultValue == OrDefault(kwargs.defaultValue, Null)
      required == OrDefault(kwargs.required, False)
  IN IF nargs = NargsZero
       THEN [outcome |-> ValueError("nargs for store actions must be > 0", 23),
             action |-> Undefined]
     ELSE IF ConstWithoutOptional(nargs, constant)
       THEN [outcome |-> ValueError("nargs must be ? to supply const", 30),
             action |-> Undefined]
     ELSE [outcome |-> Returned,
           action |-> Action(kwargs.option_strings, kwargs.dest, nargs, constant,
                             defaultValue, Truthy(required))]

NewStoreAction ==
  /\ ~exited /\ op = "none"
  /\ \E option_strings \in {<<>>, <<tFoo>>}, dest \in Dests, nargs \in NargsValues,
        constant \in Defaults, defaultValue \in {Undefined, Null, Str(tX)},
        required \in RequiredValues :
       LET kwargs == ActionKwargs(option_strings, dest, nargs, constant, defaultValue, required)
           r == _StoreAction(kwargs)
       IN Declared("_StoreAction", kwargs, r.outcome, r.action, _actions,
                   _option_string_actions, _mutually_exclusive_groups)

\* the actions handed to the registration methods: new objects, none of
\* them among the declared actions
NewActions ==
  { StoreOption(tFoo, "foo2", Null), StoreOption(tBogus, "bogus", Null),
    Action(<<tA, tFoo>>, "a2", NargsNone, Null, Null, FALSE),
    RequiredOption(tB, "b2"), RequiredOption(tBogus, "bogus"),
    Flag(tC, "c2"), Positional("p3", OPTIONAL, Null), Positional("p3", NargsNone, Null) }

\* the keys `for (... in array)` enumerates: the indices, as strings
ArrayKey(k) == <<CASE k = 1 -> "0" [] k = 2 -> "1" [] OTHER -> "2">>

\* _check_conflict(action): the loop runs over the keys of
\* action.option_strings, not over its elements, and records a hit under
\* the one property name 'option_string'; confl_optionals is a plain
\* object, whose length is undefined, so the handler is not called.  Were
\* it called, _handle_conflict_error throws; _handle_conflict_resolve looks
\* for the property name 'option_string' among the option strings of the
\* action found, finds none and removes nothing.
_check_conflict(action, index, handler) ==
  LET keys == {ArrayKey(k) : k \in DOMAIN action.option_strings}
      confl_optionals == IF \E key \in keys : key \in DOMAIN index
                           THEN {"option_string"} ELSE {}
      length == Undefined
  IN IF Truthy(length)
       THEN IF handler = "error"
              THEN ArgumentError("conflicting option string(s)", 437)
              ELSE Returned
       ELSE Returned

CheckConflict ==
  /\ ~exited
  /\ \E action \in NewActions :
       Declared("_check_conflict", action,
                _check_conflict(action, _option_string_actions, conflict_handler),
                Undefined, _actions, _option_string_actions, _mutually_exclusive_groups)

\* _add_action(action): line 223 prints the action and ends the process,
\* so lines 224-244 (the conflict check, the push, the indexing) do not run
_add_action(action, actions, index, handler) ==
  [outcome |-> ProcessExit(223), actions |-> actions, index |-> index]

AddAction ==
  /\ ~exited
  /\ \E action \in NewActions :
       LET r == _add_action(action, _actions, _option_string_actions, conflict_handler)
       IN Declared("_add_action", action, r.outcome, Undefined, r.actions, r.index,
                   _mutually_exclusive_groups)

\* no test of the member at all
AnyMemberAllowed(action) == FALSE

\* _MutuallyExclusiveGroup.js line 15: `if (action.required)`
RequiredMember(action) == action.required

\* _MutuallyExclusiveGroup._add_action(action) on the group at index j
_MutuallyExclusiveGroup_add_action(j, action, actions, index, groups, handler) ==
  IF RequiredMember(action)
    THEN [outcome |-> ValueError("mutually exclusive arguments must be optional", 16),
          actions |-> actions, index |-> index, groups |-> groups]
    ELSE LET added == _add_action(action, actions, index, handler)
         IN IF added.outcome.kind # "return"
              THEN [outcome |-> added.outcome, actions |-> added.actions,
                    index |-> added.index, groups |-> groups]
              ELSE [outcome |-> Returned, actions |-> added.actions, index |-> added.index,
                    groups |-> [groups EXCEPT ![j].group_actions =
                                  Append(@, Len(added.actions))]]

GroupAddAction ==
  /\ ~exited
  /\ \E j \in DOMAIN _mutually_exclusive_groups, action \in NewActions :
       LET r == _MutuallyExclusiveGroup_add_action(j, action, _actions, _option_string_actions,
                                                   _mutually_exclusive_groups, conflict_handler)
       IN Declared("_MutuallyExclusiveGroup._add_action", [group |-> j, action |-> action],
                   r.outcome, Undefined, r.actions, r.index, r.groups)

NextDeclare ==
  GetPositionalKwargs \/ NewStoreAction \/ CheckConflict \/ AddAction \/ GroupAddAction

SpecDeclare == Init /\ [][NextDeclare]_vars

(***************************************************************************)
(* Properties                                                              *)
(***************************************************************************)
\* a plain token: not empty and not starting with the prefix character
Plain(tok) == tok # <<>> /\ ~StartsWith(tok, prefix_chars)
AllPlain(args) == \A k \in DOMAIN args : Plain(args[k])
IsPositional(action) == action.option_strings = <<>>
Members(group) == {group.group_actions[k] : k \in DOMAIN group.group_actions}
\* the action registered under an option string
Registered(s) == _actions[_option_string_actions[s]]
OptionStrings(action) == {action.option_strings[k] : k \in DOMAIN action.option_strings}
\* the option strings of an action that the index holds already
Conflicting(action) == OptionStrings(action) \cap DOMAIN _option_string_actions

\* C1: with only default-nargs positionals declared (N >= 1 of them),
\* parsing exactly N plain tokens returns, stores token i under the dest of
\* the i-th positional, and leaves no extras.
C1_PositionalsInDeclarationOrder ==
  ( /\ op = "parse_known_args"
    /\ _actions # <<>>
    /\ \A i \in DOMAIN _actions : IsPositional(_actions[i]) /\ _actions[i].nargs = NargsNone
    /\ Len(input) = Len(_actions)
    /\ AllPlain(input) )
  => /\ outcome.kind = "return"
     /\ \A i \in DOMAIN _actions : Get(namespace, _actions[i].dest) = Str(input[i])
     /\ extras = <<>>

\* C2: with the zero-argument flags -a, -b, -c registered, parsing the one
\* token -abc returns and ends with the same fired actions, the same
\* Namespace and the same extras as parsing the three tokens -a -b -c.
C2_BundleParsesLikeSeparateFlags ==
  ( /\ op = "parse_known_args"
    /\ {tA, tB, tC} \subseteq DOMAIN _option_string_actions
    /\ \A s \in {tA, tB, tC} : Registered(s).nargs = NargsZero
    /\ input = <<tABC>> )
  => LET separate == parse_known_args(<<tA, tB, tC>>, seeded, _actions,
                                      _option_string_actions,
                                      _mutually_exclusive_groups, process_argv)
     IN /\ outcome.kind = "return"
        /\ separate.outcome.kind = "return"
        /\ seen_actions = {_option_string_actions[s] : s \in {tA, tB, tC}}
        /\ seen_actions = separate.seen_actions
        /\ namespace = separate.namespace
        /\ extras = separate.extras

\* C3: with --foo registered, the prefix --fo followed by a value resolves
\* to the --foo action when no other registered option string starts with
\* --fo, and ends in the 'ambiguous option' error when another one does.
C3_UnambiguousPrefixResolves ==
  ( /\ op = "parse_known_args"
    /\ tFoo \in DOMAIN _option_string_actions
    /\ Registered(tFoo).nargs = NargsNone
    /\ input = <<tFo, tX>> )
  => IF \E s \in DOMAIN _option_string_actions \ {tFoo} : StartsWith(s, tFo)
       THEN outcome.name = "error" /\ outcome.msg = "ambiguous option"
       ELSE /\ outcome.kind = "return"
            /\ _option_string_actions[tFoo] \in seen_actions
            /\ Get(namespace, Registered(tFoo).dest) = Str(tX)

\* C4: a ZERO_OR_MORE positional declared before a ONE_OR_MORE positional,
\* given [x, y, z], stores [x, y] in the first and [z] in the second.
C4_StarThenPlusSplit ==
  ( /\ op = "parse_known_args"
    /\ Len(_actions) = 2
    /\ IsPositional(_actions[1]) /\ _actions[1].nargs = ZERO_OR_MORE
    /\ IsPositional(_actions[2]) /\ _actions[2].nargs = ONE_OR_MORE
    /\ input = <<tX, tY, tZ>> )
  => /\ outcome.kind = "return"
     /\ Get(namespace, _actions[1].dest) = Arr(<<tX, tY>>)
     /\ Get(namespace, _actions[2].dest) = Arr(<<tZ>>)

\* C5: for a required mutually exclusive group, the parse ends in 'one of
\* the arguments ... is required' only when no member is in the
\* seen-non-default set, a parse that returns has a member in it, and
\* parsing exactly one member's option string returns.
C5_RequiredGroupNeedsOneMember ==
  \A j \in DOMAIN _mutually_exclusive_groups :
    LET group == _mutually_exclusive_groups[j]
    IN (op = "parse_known_args" /\ group.required)
       => /\ (outcome.name = "error" /\ outcome.msg = "one of the arguments is required")
               => Members(group) \cap seen_non_default_actions = {}
          /\ outcome.kind = "return"
               => Members(group) \cap seen_non_default_actions # {}
          /\ (\E m \in Members(group) : input = <<_actions[m].option_strings[1]>>)
               => outcome.kind = "return"

\* C6: when the option strings of two different members of one mutually
\* exclusive group are given, the parse ends in the conflict error 'not
\* allowed with argument'; and no parse returns with more than one member
\* of a group in the seen-non-default set.
C6_GroupMembersConflict ==
  \A j \in DOMAIN _mutually_exclusive_groups :
    LET group == _mutually_exclusive_groups[j]
    IN op = "parse_known_args"
       => /\ (\E m, n \in Members(group) :
                /\ m # n
                /\ input = <<_actions[m].option_strings[1], _actions[n].option_strings[1]>>)
               => (outcome.name = "ArgumentError" /\ outcome.msg = "not allowed with argument")
          /\ outcome.kind = "return"
               => Cardinality(Members(group) \cap seen_non_default_actions) <= 1

\* C7: parsing [--, -x] against a single REMAINDER positional returns and
\* stores exactly ["-x"] in it.
C7_DoubleDashForcesArguments ==
  ( /\ op = "parse_known_args"
    /\ Len(_actions) = 1
    /\ IsPositional(_actions[1]) /\ _actions[1].nargs = REMAINDER
    /\ input = <<tDashDash, tMinusX>> )
  => /\ outcome.kind = "return"
     /\ Get(namespace, _actions[1].dest) = Arr(<<tMinusX>>)

\* C8: under parse_known_args, with no positional declared, the token
\* --bogus, which matches no registered option string, raises nothing and
\* is returned verbatim in extras.
C8_UnknownOptionGoesToExtras ==
  ( /\ op = "parse_known_args"
    /\ \A i \in DOMAIN _actions : ~IsPositional(_actions[i])
    /\ \A s \in DOMAIN _option_string_actions : ~StartsWith(s, tBogus)
    /\ input = <<tBogus>> )
  => /\ outcome.kind = "return"
     /\ extras = <<ExtraToken(tBogus)>>

\* C9: parse_args ends in 'unrecognized arguments' exactly when
\* parse_known_args on the same input returns non-empty extras, returns
\* the Namespace when it returns empty extras, and parse_known_args does
\* not fail because extras are present: on a parser that declares nothing,
\* where plain tokens can only be extras, it returns.
C9_StrictFailsExactlyOnExtras ==
  op = "parse_args"
  => LET known == parse_known_args(input, seeded, _actions, _option_string_actions,
                                   _mutually_exclusive_groups, process_argv)
     IN /\ (outcome.name = "error" /\ outcome.msg = "unrecognized arguments")
             <=> (known.outcome.kind = "return" /\ known.extras # <<>>)
        /\ (known.outcome.kind = "return" /\ known.extras = <<>>)
             => (outcome.kind = "return" /\ namespace = known.namespace)
        /\ (_actions = <<>> /\ input # <<>> /\ AllPlain(input))
             => known.outcome.kind = "return"

\* C10: a parse that returns has flat extras made of input tokens, and on
\* a parser that declares nothing, where no action can claim a token, the
\* parse of plain tokens returns with extras equal to the input, token by
\* token and in input order.
C10_TokensAccountedOnce ==
  op = "parse_known_args"
  => /\ outcome.kind = "return"
          => \A k \in DOMAIN extras :
               ~extras[k].nested /\ \E n \in DOMAIN input : extras[k].v = <<input[n]>>
     /\ (_actions = <<>> /\ input # <<>> /\ AllPlain(input))
          => /\ outcome.kind = "return"
             /\ extras = [k \in DOMAIN input |-> ExtraToken(input[k])]

\* C11: a parse ends in 'too few arguments' only when a declared positional
\* is still in the list of positionals not consumed yet: with that list
\* empty (every positional consumed, or none declared) the error is not
\* raised; and it is raised whenever the list is not empty at the end.
C11_TooFewOnlyWithPositionalsLeft ==
  op = "parse_known_args"
  => /\ (outcome.name = "error" /\ outcome.msg = "too few arguments")
          => positionals # <<>>
     /\ (outcome.kind = "return") => positionals = <<>>

\* C12: a parse ends in 'argument <name> is required' only with a required
\* action that is not in the seen set, and a parse that returns has every
\* required action in it; where the whole token stream is consumed without
\* an earlier error (only options declared, only plain tokens given, which
\* are extras), a required action that was not seen ends the parse in
\* that error.
C12_RequiredActionMissing ==
  op = "parse_known_args"
  => /\ (outcome.name = "error" /\ outcome.msg = "argument is required")
          => \E i \in DOMAIN _actions : _actions[i].required /\ i \notin seen_actions
     /\ outcome.kind = "return"
          => \A i \in DOMAIN _actions : _actions[i].required => i \in seen_actions
     /\ ( /\ \A i \in DOMAIN _actions : ~IsPositional(_actions[i])
          /\ \E i \in DOMAIN _actions : _actions[i].required /\ i \notin seen_actions
          /\ input # <<>> /\ AllPlain(input) )
          => (outcome.name = "error" /\ outcome.msg = "argument is required")

\* C13: in the Namespace the matching works on, every declared action
\* that has not fired has its dest set as follows: the pre-seeded value when
\* the caller's Namespace held the key, no key when the default is the
\* suppress sentinel, and the action's default otherwise.
C13_NamespaceHoldsDefaults ==
  op = "parse_known_args"
  => \A i \in DOMAIN _actions :
       LET action == _actions[i]
       IN i \notin seen_actions
          => IF seeded THEN Get(namespace, action.dest) = Str(tSeed)
             ELSE IF action.default = SUPPRESS THEN action.dest \notin DOMAIN namespace
             ELSE /\ action.dest \in DOMAIN namespace
                  /\ namespace[action.dest] = action.default

\* C14 as stated: _get_positional_kwargs returns required = true unless
\* nargs is NONE_OR_ONE or nargs is ZERO_OR_MORE with no default given, and
\* in these two cases leaves the positional not required.
C14_RequiredUnlessStarWithoutDefault ==
  (op = "_get_positional_kwargs" /\ outcome.kind = "return")
  => (Truthy(built.required)
        <=> ~( given.kwargs.nargs = OPTIONAL
               \/ (given.kwargs.nargs = ZERO_OR_MORE /\ ~Truthy(given.kwargs.default)) ))

\* C14 amended: _get_positional_kwargs returns required = true unless
\* nargs is NONE_OR_ONE or nargs is ZERO_OR_MORE with a (truthy) default
\* given, and in these two cases leaves the positional not required; the
\* dest is the one passed and option_strings is empty.
C14_RequiredUnlessStarWithDefault ==
  (op = "_get_positional_kwargs" /\ outcome.kind = "return")
  => /\ Truthy(built.required)
          <=> ~( given.kwargs.nargs = OPTIONAL
                 \/ (given.kwargs.nargs = ZERO_OR_MORE /\ Truthy(given.kwargs.default)) )
     /\ built.dest = given.dest
     /\ built.option_strings = Arr(<<>>)

\* a ZERO_OR_MORE positional declared without a default comes out required
C14_StarWithoutDefaultIsRequired ==
  /\ op = "_get_positional_kwargs"
  /\ outcome.kind = "return"
  /\ given.kwargs.nargs = ZERO_OR_MORE
  /\ given.kwargs.default = Undefined
  /\ built.required = True

\* C15: under conflict_handler 'error', a registration (_add_action, or
\* its conflict check called alone) of an action one of whose option
\* strings is in the index ends in the error 'conflicting option
\* string(s)', and leaves the action list and the index as they were.
C15_ConflictRefusedAtRegistration ==
  [][ ( /\ op' \in {"_add_action", "_check_conflict"}
        /\ conflict_handler = "error"
        /\ Conflicting(given') # {} )
      => /\ outcome'.name = "ArgumentError"
         /\ outcome'.msg = "conflicting option string(s)"
         /\ UNCHANGED <<_actions, _option_string_actions>> ]_vars

\* C16: under conflict_handler 'resolve', _add_action of an action one of
\* whose option strings is in the index returns; afterwards the index maps
\* every option string of the new action to it, and every action declared
\* before is still declared with exactly its option strings that did not
\* conflict, or is gone from the list if none is left.
C16_ConflictResolvedForNewAction ==
  [][ ( /\ op' = "_add_action"
        /\ conflict_handler = "resolve"
        /\ Conflicting(given') # {} )
      => /\ outcome'.kind = "return"
         /\ \A s \in OptionStrings(given') :
              /\ s \in DOMAIN _option_string_actions'
              /\ _actions'[_option_string_actions'[s]] = given'
         /\ \A i \in DOMAIN _actions :
              LET kept == OptionStrings(_actions[i]) \ OptionStrings(given')
              IN IF kept = {} /\ ~IsPositional(_actions[i])
                   THEN \A k \in DOMAIN _actions' : _actions'[k].dest # _actions[i].dest
                   ELSE \E k \in DOMAIN _actions' :
                          /\ _actions'[k].dest = _actions[i].dest
                          /\ OptionStrings(_actions'[k]) = kept ]_vars

C18_StoreActionRefusesZeroAndStrayConst ==
  op = "_StoreAction"
  => LET supplied == given.constant \notin {Undefined, Null}
         refused == given.nargs = NargsZero \/ (supplied /\ given.nargs # OPTIONAL)
     IN /\ refused <=> (outcome.kind = "throw" /\ outcome.name = "ValueError")
        /\ ~refused => /\ outcome.kind = "return"
                       /\ built.nargs = given.nargs
                       /\ built.const = OrDefault(given.constant, Null)

\* a const was supplied with nargs NONE_OR_ONE and the action was built
C18_ConstWithOptionalBuilt ==
  /\ op = "_StoreAction"
  /\ given.nargs = OPTIONAL
  /\ given.constant = Str(tX)
  /\ outcome.kind = "return"
  /\ built.const = Str(tX)

\* C19: an explicit argument is not dropped: --foo=x, with --foo a store
\* option that takes exactly one argument, returns with x stored under its
\* dest and nothing in extras; -abc, with -a and -b zero-argument flags
\* and -c not registered, ends in the error 'ignored explicit argument'.
C19_ExplicitArgumentNeverDropped ==
  op = "parse_known_args"
  => /\ ( /\ input = <<tFooEqX>>
          /\ tFoo \in DOMAIN _option_string_actions
          /\ Registered(tFoo).nargs = NargsNone )
        => /\ outcome.kind = "return"
           /\ Get(namespace, Registered(tFoo).dest) = Str(tX)
           /\ extras = <<>>
     /\ ( /\ input = <<tABC>>
          /\ {tA, tB} \subseteq DOMAIN _option_string_actions
          /\ Registered(tA).nargs = NargsZero /\ Registered(tB).nargs = NargsZero
          /\ tC \notin DOMAIN _option_string_actions )
        => outcome.msg = "ignored explicit argument"

\* the tokens that spell the stored values of a Namespace again: for each
\* action whose dest holds a string, its option string if it has one, then
\* the string
RECURSIVE Serialize(_, _, _)
Serialize(actions, i, ns) ==
  IF i > Len(actions) THEN <<>>
  ELSE LET action == actions[i]
           value == Get(ns, action.dest)
       IN (IF value.t # "string" THEN <<>>
           ELSE IF IsPositional(action) THEN value.v
           ELSE <<action.option_strings[1]>> \o value.v)
          \o Serialize(actions, i + 1, ns)

\* the tokens that give the value x to every declared action
RECURSIVE SpellEach(_, _)
SpellEach(actions, i) ==
  IF i > Len(actions) THEN <<>>
  ELSE (IF IsPositional(actions[i]) THEN <<tX>> ELSE <<actions[i].option_strings[1], tX>>)
       \o SpellEach(actions, i + 1)

ClassifiedTokens == IF input = <<>> THEN Tail(process_argv) ELSE input

\* the symbol the classification is to give the token at position k
ExpectedSymbol(arg_strings, k) ==
  IF \E j \in 1..(k - 1) : arg_strings[j] = tDashDash THEN "A"
  ELSE IF arg_strings[k] = tDashDash THEN "-"
  ELSE IF _parse_optional(arg_strings[k], _option_string_actions).kind = "tuple" THEN "O"
  ELSE "A"

\* C21: whenever a parse has built the Token Pattern, the pattern has
\* exactly one symbol per token, each of O, A and '-': '-' for the first
\* '--', 'A' for every token after it, and otherwise 'O' exactly when
\* _parse_optional returns a tuple for the token.
C21_PatternHasOneSymbolPerToken ==
  ( /\ op \in {"parse_known_args", "parse_args"}
    /\ ~(outcome.kind = "throw" /\ outcome.line \in {218, 606}) )
  => /\ Len(arg_strings_pattern) = Len(ClassifiedTokens)
     /\ \A k \in DOMAIN arg_strings_pattern :
          /\ arg_strings_pattern[k] \in {"O", "A", "-"}
          /\ k \in DOMAIN ClassifiedTokens
               => arg_strings_pattern[k] = ExpectedSymbol(ClassifiedTokens, k)

(***************************************************************************)
(* The matcher's helpers, called on their own: _match_arguments_partial,   *)
(* _get_nargs_pattern, _get_values                                         *)
(***************************************************************************)
\* a call of a helper: it reads its arguments only and writes nothing of
\* the parser
Called(name, arg, out, val) ==
  Declared(name, arg, out, val, _actions, _option_string_actions, _mutually_exclusive_groups)

\* the actions the helpers are called with
MatchActions ==
  { Positional("p1", nargs, default) : nargs \in NargsValues, default \in {Null, Str(tY)} }
  \cup { Action(<<tFoo>>, "foo", nargs, const, Str(tY), FALSE) :
           nargs \in NargsValues, const \in {Null, Str(tX)} }

\* the slices of the Token Pattern the helpers are called with
PatternSymbols == {"A", "O", "-"}
Patterns == SeqsUpTo(PatternSymbols, MaxArgs)

MatchArgumentsPartial ==
  /\ ~exited /\ op = "none"
  /\ \E actions \in SeqsUpTo({Positional("p1", NargsNone, Null), Positional("p2", OPTIONAL, Null)}, 2),
        pattern \in Patterns :
       Called("_match_arguments_partial", [actions |-> actions, pattern |-> pattern],
              Returned, _match_arguments_partial(actions, pattern))

RECURSIVE Sum(_)
Sum(counts) == IF counts = <<>> THEN 0 ELSE Head(counts) + Sum(Tail(counts))

\* C22: _match_arguments_partial returns per-action counts for the longest
\* prefix of the outstanding positionals whose combined pattern matches:
\* at most one entry per positional, with a sum no larger than the slice;
\* an empty result only when no non-empty prefix matches, so a default-nargs
\* positional facing an 'A' is counted; and N default-nargs positionals
\* facing N 'A's give N ones.
C22_CountsForLongestMatchingPrefix ==
  op = "_match_arguments_partial"
  => /\ Len(built) <= Len(given.actions)
     /\ Sum(built) <= Len(given.pattern)
     /\ ( /\ given.actions # <<>>
          /\ given.actions[1].nargs = NargsNone
          /\ given.pattern # <<>>
          /\ given.pattern[1] = "A" )
        => built # <<>>
     /\ ( /\ \A i \in DOMAIN given.actions : given.actions[i].nargs = NargsNone
          /\ given.pattern = Repeat("A", Len(given.actions)) )
        => built = Repeat(1, Len(given.actions))

\* String.prototype.indexOf(searchString), counted from 1; 0 when absent
IndexOf(s, p) ==
  LET found == {i \in 1..(Len(s) - Len(p) + 1) : SubSeq(s, i, i + Len(p) - 1) = p}
  IN IF found = {} THEN 0 ELSE CHOOSE i \in found : \A j \in found : i <= j

\* String.prototype.replace(pattern, replacement) with a string pattern:
\* only the first occurrence is replaced
Replace(s, p, r) ==
  LET i == IndexOf(s, p)
  IN IF i = 0 THEN s ELSE SubSeq(s, 1, i - 1) \o r \o SubSeq(s, i + Len(p), Len(s))

\* the switch of _get_nargs_pattern, lines 702-735.  The case expressions
\* are evaluated in order until one equals action.nargs; the third one,
\* ZERO_OR_MORE, is a name the module does not bind (line 16 imports
\* OPTIONAL, ONE_OR_MORE and SUPPRESS only), so every nargs other than
\* null and OPTIONAL ends in a ReferenceError at line 714.
NargsSwitch(nargs) ==
  IF nargs = NargsNone
    THEN [outcome |-> Returned, nargs_pattern |-> <<"(", "-", "*", "A", "-", "*", ")">>]
  ELSE IF nargs = OPTIONAL
    THEN [outcome |-> Returned, nargs_pattern |-> <<"(", "-", "*", "A", "?", "-", "*", ")">>]
  ELSE [outcome |-> Throw("ReferenceError", 714), nargs_pattern |-> <<>>]

\* lines 738-742: `if (action.option_strings)` tests an array, which is
\* truthy for a positional too; each replace removes one occurrence
StripDashes(option_strings, nargs_pattern) ==
  IF Truthy(Arr(option_strings))
    THEN Replace(Replace(nargs_pattern, <<"-", "*">>, <<>>), <<"-">>, <<>>)
  ELSE nargs_pattern

_get_nargs_pattern(action) ==
  LET switched == NargsSwitch(action.nargs)
  IN IF switched.outcome.kind # "return" THEN switched
     ELSE [outcome |-> Returned,
           nargs_pattern |-> StripDashes(action.option_strings, switched.nargs_pattern)]

GetNargsPattern ==
  /\ ~exited /\ op = "none"
  /\ \E action \in MatchActions :
       LET r == _get_nargs_pattern(action)
       IN Called("_get_nargs_pattern", [action |-> action], r.outcome, r.nargs_pattern)

\* the characters of a pattern
Symbols(pattern) == {pattern[k] : k \in DOMAIN pattern}

\* C23: _get_nargs_pattern returns a fragment for every nargs value; the
\* fragment of an optional contains no '-', and the fragment of a
\* positional keeps its '-' parts.
C23_OnlyOptionalsLoseDashes ==
  op = "_get_nargs_pattern"
  => /\ outcome.kind = "return"
     /\ ~IsPositional(given.action) => "-" \notin Symbols(built)
     /\ IsPositional(given.action) => "-" \in Symbols(built)

\* _get_values, line 752: the first statement builds [PARSER, REMAINDER],
\* two names the module does not bind, so every call ends there.  (Past
\* it, `!arg_strings` is false for the empty array and `let value` at line
\* 759 declares a second variable, leaving the returned one undefined.)
_get_values(action, arg_strings) ==
  [outcome |-> Throw("ReferenceError", 752), value |-> Undefined]

GetValues ==
  /\ ~exited /\ op = "none"
  /\ \E action \in MatchActions, arg_strings \in SeqsUpTo({tX, tDashDash}, 2) :
       LET r == _get_values(action, arg_strings)
       IN Called("_get_values", [action |-> action, arg_strings |-> arg_strings],
                 r.outcome, r.value)

\* C24: for nargs NONE_OR_ONE and no token, _get_values returns the
\* action's const when the action has option strings and its default when
\* it is a positional (a string goes through the type function, which is
\* the identity when no type is declared).
C24_OptionalWithoutTokenGivesConstOrDefault ==
  ( /\ op = "_get_values"
    /\ given.action.nargs = OPTIONAL
    /\ given.arg_strings = <<>> )
  => /\ outcome.kind = "return"
     /\ built = IF IsPositional(given.action) THEN given.action.default
                ELSE given.action.const

NextMatch == MatchArgumentsPartial \/ GetNargsPattern \/ GetValues

SpecMatch == Init /\ [][NextMatch]_vars

\* the default of an action is a string that can be converted
HasStringDefault(action) == action.default.t = "string" /\ action.default # SUPPRESS

\* C25: the pass after the matching converts a string default through the
\* type function only for an action that was not seen and whose Namespace
\* value is still the raw default, and for no action twice; and it does
\* convert it: with only non-required options declared, a fresh Namespace
\* and plain tokens, the parse returns and every dest with a string default
\* holds the converted default (the type function is the identity when no
\* type is declared).
C25_DefaultsConvertedOnlyWhenUnseen ==
  op = "parse_known_args"
  => /\ \A k \in DOMAIN converted :
          /\ converted[k] \notin seen_actions
          /\ HasStringDefault(_actions[converted[k]])
          /\ \A l \in DOMAIN converted : converted[l] = converted[k] => l = k
     /\ ( /\ ~seeded
          /\ AllPlain(ClassifiedTokens)
          /\ \A i \in DOMAIN _actions : ~IsPositional(_actions[i]) /\ ~_actions[i].required
          /\ \E i \in DOMAIN _actions : HasStringDefault(_actions[i]) )
        => /\ outcome.kind = "return"
           /\ \A i \in DOMAIN _actions :
                HasStringDefault(_actions[i])
                => /\ \E k \in DOMAIN converted : converted[k] = i
                   /\ Get(namespace, _actions[i].dest) = _actions[i].default

(***************************************************************************)
(* Two parses in a row on one parser                                       *)
(***************************************************************************)
\* the token lists parsed twice
ReparseTokens == {tX, tDashDash, tFoo, tFooEqX}
ReparseArgLists == SeqsUpTo(ReparseTokens, MaxArgs)

ParseOnce ==
  /\ ~exited /\ op = "none"
  /\ \E args \in ReparseArgLists, seed \in BOOLEAN :
       Finish("parse_known_args", args, seed,
              parse_known_args(args, seed, _actions, _option_string_actions,
                               _mutually_exclusive_groups, process_argv))

\* the caller caught what the first parse threw and parses the same tokens
\* again, with a Namespace built the same way
ParseAgain ==
  /\ ~exited /\ op = "parse_known_args"
  /\ Finish("parse_known_args again", input, seeded,
            parse_known_args(input, seeded, _actions, _option_string_actions,
                             _mutually_exclusive_groups, process_argv))

NextReparse == ParseOnce \/ ParseAgain

SpecReparse == Init /\ [][NextReparse]_vars

IndexConsistent(actions, index) ==
  /\ \A s \in DOMAIN index :
       /\ index[s] \in DOMAIN actions
       /\ \E k \in DOMAIN actions[index[s]].option_strings :
            actions[index[s]].option_strings[k] = s
  /\ \A i \in DOMAIN actions :
       \A k \in DOMAIN actions[i].option_strings :
         /\ actions[i].option_strings[k] \in DOMAIN index
         /\ index[actions[i].option_strings[k]] = i

_indent(f) ==
  [f EXCEPT !._current_indent = @ + f._indent_increment, !._level = @ + 1]

\* HelpFormatter._dedent: the assert stands between the two assignments
_dedent(f) ==
  LET dedented == [f EXCEPT !._current_indent = @ - f._indent_increment]
  IN IF dedented._current_indent >= 0
       THEN [outcome |-> Returned, formatter |-> [dedented EXCEPT !._level = @ - 1]]
       ELSE [outcome |-> Throw("AssertionError", 519), formatter |-> dedented]

\* Map.prototype.set: a key the Map holds keeps its place and gets the new
\* value
MapSet(items, func, args) ==
  IF \E k \in DOMAIN items : items[k].func = func
    THEN [k \in DOMAIN items |->
            IF items[k].func = func THEN [func |-> func, args |-> args] ELSE items[k]]
    ELSE Append(items, [func |-> func, args |-> args])

\* HelpFormatter._add_item: the key is the function itself, and every
\* section has the one function _Section.prototype.format_help
_add_item(f, func, args) ==
  IF f.depth = 0 THEN [f EXCEPT !.items = MapSet(@, func, args)] ELSE f

\* HelpFormatter.start_section
start_section(f, heading) ==
  LET indented == _indent(f)
      added == _add_item(indented, "format_help", <<>>)
  IN [added EXCEPT !.depth = @ + 1, !.sections = @ + 1]

\* HelpFormatter.end_section
end_section(f) == _dedent([f EXCEPT !.depth = @ - 1])

\* HelpFormatter.add_text
add_text(f, text) ==
  IF Truthy(text) /\ text # SUPPRESS THEN _add_item(f, "_format_text", <<text>>) ELSE f

\* HelpFormatter.add_usage; actions, groups and prefix are not read before
\* the item is rendered
add_usage(f, usage) ==
  IF usage # SUPPRESS THEN _add_item(f, "_format_usage", <<usage>>) ELSE f

\* _Section.format_help line 20, `item[0].apply(this.formatter, ...item[1])`
\* for one item of the root section.  The spread hands item[1][0] to apply
\* as its list of arguments: a string there is a TypeError, null or nothing
\* calls the function without arguments and with the formatter as `this`.
\* For a child section that function is _Section.format_help, which reads
\* this.parent (undefined on a formatter) and then calls
\* this.formatter._indent() on undefined, at line 17.
ApplyItem(item) ==
  IF item.args # <<>> /\ item.args[1].t = "string" THEN Throw("TypeError", 20)
  ELSE IF item.func = "format_help" THEN Throw("TypeError", 17)
  ELSE Returned

RECURSIVE ApplyItems(_, _)
ApplyItems(items, k) ==
  IF k > Len(items) THEN Returned
  ELSE IF ApplyItem(items[k]).kind # "return" THEN ApplyItem(items[k])
  ELSE ApplyItems(items, k + 1)

\* HelpFormatter.format_help: the root section's format_help.  The root
\* has no parent, so line 16 indents and line 22 does not dedent;
\* _join_parts has no return statement, so item_help is undefined and the
\* section returns ''.
format_help(f) ==
  [outcome |-> ApplyItems(f.items, 1), formatter |-> _indent(f)]

Formatted(name, out, f) ==
  /\ op' = name
  /\ outcome' = out
  /\ formatter' = f
  /\ exited' = (out.kind = "exit")
  /\ UNCHANGED <<container, input, given, built, seeded, namespace, action_conflicts,
                 arg_strings_pattern, positionals, seen_actions, seen_non_default_actions,
                 converted, extras>>

\* help is being built: nothing was rendered yet and no call has failed
Building == ~exited /\ op # "format_help" /\ outcome.kind # "throw"

StartSection ==
  /\ Building /\ formatter.sections < MaxSections
  /\ \E heading \in {Null, Str(tX)} :
       Formatted("start_section", Returned, start_section(formatter, heading))

\* ArgumentParser.format_help closes each section it opened (lines
\* 841-846), so end_section is called with a section open
EndSection ==
  /\ Building /\ formatter.depth > 0
  /\ LET r == end_section(formatter) IN Formatted("end_section", r.outcome, r.formatter)

AddText ==
  /\ Building
  /\ \E text \in {Null, Str(tX)} : Formatted("add_text", Returned, add_text(formatter, text))

AddUsage ==
  /\ Building
  /\ \E usage \in {Null, Str(tX), SUPPRESS} :
       Formatted("add_usage", Returned, add_usage(formatter, usage))

\* rendering, with every section closed
FormatHelp ==
  /\ Building /\ formatter.depth = 0
  /\ LET r == format_help(formatter) IN Formatted("format_help", r.outcome, r.formatter)

NextFormat == StartSection \/ EndSection \/ AddText \/ AddUsage \/ FormatHelp

SpecFormat == Init /\ [][NextFormat]_vars

\* C30: while help is built and rendered the indentation is never below
\* zero and the assertion of _dedent does not fail; and once format_help
\* has returned, the indentation and the nesting level are 0 again.
C30_IndentationRestored ==
  /\ formatter._current_indent >= 0
  /\ outcome.name # "AssertionError"
  /\ (op = "format_help" /\ outcome.kind = "return")
       => (formatter._current_indent = 0 /\ formatter._level = 0)

====
